---- MODULE Spec2Model ----
(***************************************************************************)
(* Bit-packed one-dimensional cellular automaton (main.c): the packed row, *)
(* the in-place automaton_step with its three sliding bit views and the    *)
(* delayed write, the renderer and the driver loop.                        *)
(***************************************************************************)
EXTENDS Integers, Sequences, FiniteSets, TLC

VARIABLES
  STATE_SIZE,       \* total number of cells (macro STATE_SIZE)
  sizeof_block_t,   \* sizeof(block_t)
  automaton_state,  \* the block array: block index -> block value
  state_array,      \* pointer argument handed to automaton_step
  rule_table,       \* storage of the rule table: sequence of flip flags
  pflip_rules,      \* pointer argument handed to automaton_step
  left_view, center_view, right_view,   \* bit_view_t locals of automaton_step
  prev_result, curr_result,             \* bool locals of automaton_step
  i,                \* loop counter of automaton_step
  main_i,           \* loop counter of main
  generations,      \* loop limit of main
  pc,               \* position of the program
  stdout_line,      \* characters written by the last pretty_print
  rendered,         \* for every pretty_print so far, the number of steps done before it
  steps,            \* number of completed automaton_step calls
  seed,             \* automaton_state as constructed
  pre_state,        \* automaton_state at entry of the current/last automaton_step
  reference,        \* row of the double-buffered reference automaton
  reads,            \* views read through get_bit in the current/last automaton_step
  writes,           \* views handed to conditional_bit_flip in the current/last automaton_step, in order
  evals             \* center views handed to evaluate in the current/last automaton_step, in order

vars == <<STATE_SIZE, sizeof_block_t, automaton_state, state_array, rule_table,
          pflip_rules, left_view, center_view, right_view, prev_result,
          curr_result, i, main_i, generations, pc, stdout_line, rendered,
          steps, seed, pre_state, reference, reads, writes, evals>>

\* the access log of automaton_step
log == <<reads, writes, evals>>

\* ---------------------------------------------------------------- bounds
MinN == 3
MaxN == 9
MaxGen == 3
MaxCoreN == 4

\* ------------------------------------------------------- program constants
\* variant: the loop of main stops one iteration early
GENERATIONS_mut == 99
GENERATIONS == 100

MAIN_STATE_SIZE == 3 * 8

\* variant: the initialiser in reverse order
MAIN_SEED_mut == <<2, 1, 0>>
MAIN_SEED == <<0, 1, 2>>

\* variants: one entry of the table inverted (001, 000, 110)
RULE110_mut001 == <<FALSE, FALSE, FALSE, FALSE, FALSE, TRUE, FALSE, TRUE>>
RULE110_mut000 == <<TRUE, TRUE, FALSE, FALSE, FALSE, TRUE, FALSE, TRUE>>
RULE110_mut110 == <<FALSE, TRUE, FALSE, FALSE, FALSE, TRUE, TRUE, TRUE>>
RULE110 == <<FALSE, TRUE, FALSE, FALSE, FALSE, TRUE, FALSE, TRUE>>

NULL == "NULL"

\* ------------------------------------------------------------ C arithmetic
RECURSIVE Pow2(_)
Pow2(n) == IF n = 0 THEN 1 ELSE 2 * Pow2(n - 1)

RECURSIVE BitXor(_, _)
BitXor(a, b) ==
  IF a = 0 /\ b = 0 THEN 0
  ELSE (((a % 2) + (b % 2)) % 2) + 2 * BitXor(a \div 2, b \div 2)

RECURSIVE BitAnd(_, _)
BitAnd(a, b) ==
  IF a = 0 \/ b = 0 THEN 0
  ELSE ((a % 2) * (b % 2)) + 2 * BitAnd(a \div 2, b \div 2)

\* #define BLOCK_SIZE 8 * sizeof(block_t)
BLOCK_SIZE == 8 * sizeof_block_t

\* value range of block_t
BlockModulus == Pow2(8 * sizeof_block_t)

\* #define ARRAY_SIZE STATE_SIZE / BLOCK_SIZE + (STATE_SIZE % BLOCK_SIZE != 0)
\* expanded textually: STATE_SIZE / 8 * sizeof(block_t) + (STATE_SIZE % 8 * sizeof(block_t) != 0)
ARRAY_SIZE ==
  ((STATE_SIZE \div 8) * sizeof_block_t)
    + (IF ((STATE_SIZE % 8) * sizeof_block_t) # 0 THEN 1 ELSE 0)

\* bit_view_t
NoView == [pblock |-> 0, position |-> 0]

\* the view automaton_step computes for counter k:
\*   pblock = state_array + k / BLOCK_SIZE; position = BLOCK_SIZE - 1 - (k % BLOCK_SIZE)
\* variant: cells packed least-significant-bit-first
ViewAt_mut(k) ==
  [pblock   |-> (k \div 8) * sizeof_block_t,
   position |-> ((k % 8) * sizeof_block_t) % 256]
ViewAt(k) ==
  [pblock   |-> (k \div 8) * sizeof_block_t,
   position |-> (((8 * sizeof_block_t) - 1) - ((k % 8) * sizeof_block_t)) % 256]

\* ------------------------------------------------------------ bit access
get_bit(arr, view) == (arr[view.pblock] \div Pow2(view.position)) % 2

\* variant: the bit is set (|=) where it should be toggled (^=)
bit_flip_mut(arr, view) ==
  IF (arr[view.pblock] \div Pow2(view.position)) % 2 = 1 THEN arr
  ELSE [arr EXCEPT ![view.pblock] = BitXor(@, Pow2(view.position)) % BlockModulus]
bit_flip(arr, view) ==
  [arr EXCEPT ![view.pblock] = BitXor(@, Pow2(view.position)) % BlockModulus]

\* variant: the flag taken as the value to store (the commented-out set_bit)
conditional_bit_flip_mut(arr, view, flip) ==
  IF flip # (get_bit(arr, view) = 1) THEN bit_flip(arr, view) ELSE arr
conditional_bit_flip(arr, view, flip) ==
  IF flip THEN bit_flip(arr, view) ELSE arr

\* size_t value = (get_bit(left) << 2) + (get_bit(center) << 1) + get_bit(right)
\* variant: left and right weights swapped
NeighbourhoodValue_mut(arr, lv, cv, rv) ==
  get_bit(arr, lv) + (get_bit(arr, cv) * 2) + (get_bit(arr, rv) * 4)
NeighbourhoodValue(arr, lv, cv, rv) ==
  (get_bit(arr, lv) * 4) + (get_bit(arr, cv) * 2) + get_bit(arr, rv)

\* return pflip_rules[value]: the set of values the read can produce; a read
\* past the end of the table is an out-of-bounds read of unknown memory
evaluate(arr, lv, cv, rv, table) ==
  LET value == NeighbourhoodValue(arr, lv, cv, rv)
  IN  IF value + 1 <= Len(table) THEN {table[value + 1]} ELSE BOOLEAN

\* ------------------------------------------------------------- rendering
Glyph(nonzero) == IF nonzero THEN "#" ELSE " "

\* while (mask > end_mask) { printf("%c ", ...); mask = mask >> 1; }
\* printf("%c", (block & end_mask) ? '#' : ' ');
RECURSIVE print_loop(_, _, _)
print_loop(block, mask, end_mask) ==
  IF mask > end_mask
  THEN <<Glyph(BitAnd(block, mask) # 0), " ">> \o print_loop(block, mask \div 2, end_mask)
  ELSE <<Glyph(BitAnd(block, end_mask) # 0)>>

print_block(block, bits) ==
  LET mask     == Pow2(BLOCK_SIZE - 1) % BlockModulus
      end_mask == Pow2(BLOCK_SIZE - bits) % BlockModulus
  IN  print_loop(block, mask, end_mask)

\* int remaining_bits = (STATE_SIZE % BLOCK_SIZE) ? (STATE_SIZE % BLOCK_SIZE) : BLOCK_SIZE;
\* variant: the last block always printed in full
remaining_bits_mut == BLOCK_SIZE
remaining_bits ==
  IF ((STATE_SIZE % 8) * sizeof_block_t) # 0
  THEN (STATE_SIZE % 8) * sizeof_block_t
  ELSE BLOCK_SIZE

\* for (i = 0; i < ARRAY_SIZE - 1; i++) { print_as_characters(state_array[i], BLOCK_SIZE); printf(" "); }
\* print_as_characters is not defined in the file; print_block, the only
\* function with that signature, stands for it
RECURSIVE print_full_blocks(_, _)
print_full_blocks(arr, k) ==
  IF k < ARRAY_SIZE - 1
  THEN print_block(arr[k], BLOCK_SIZE) \o <<" ">> \o print_full_blocks(arr, k + 1)
  ELSE <<>>

pretty_print(arr) ==
  print_full_blocks(arr, 0)
    \o print_block(arr[ARRAY_SIZE - 1], remaining_bits)
    \o <<"\n">>

\* ------------------------------------------------------ derived quantities
\* the row as cells: cell k is the bit its view designates
Cells(arr) == [k \in 0 .. STATE_SIZE - 1 |-> get_bit(arr, ViewAt(k))]

\* next value of a cell under a flip table: the old value, flipped when the
\* table entry of its neighbourhood is set
FlipNext(table, l, c, r) ==
  IF table[(l * 4) + (c * 2) + r + 1] THEN 1 - c ELSE c

\* one generation of the double-buffered automaton: both ends copied, every
\* interior cell computed from the old row
RefStep(row, table) ==
  [k \in DOMAIN row |->
     IF k = 0 \/ k = STATE_SIZE - 1 THEN row[k]
     ELSE FlipNext(table, row[k - 1], row[k], row[k + 1])]

\* ------------------------------------------------------------ initial states
\* block b of a row given cell by cell; bits past the last cell take pad
RECURSIVE BlockOf(_, _, _, _)
BlockOf(cells, pad, b, p) ==
  IF p = BLOCK_SIZE THEN 0
  ELSE LET k == (b * BLOCK_SIZE) + (BLOCK_SIZE - 1 - p)
       IN  ((IF k < STATE_SIZE THEN cells[k] ELSE pad) * Pow2(p))
             + BlockOf(cells, pad, b, p + 1)

Pack(cells, pad) == [b \in 0 .. ARRAY_SIZE - 1 |-> BlockOf(cells, pad, b, 0)]

\* block_t automaton_state[ARRAY_SIZE] = {0, 1, 2};
MainArray ==
  [b \in 0 .. ARRAY_SIZE - 1 |-> IF b + 1 <= Len(MAIN_SEED) THEN MAIN_SEED[b + 1] ELSE 0]

\* locals of automaton_step outside a call, and the driver's bookkeeping
InitRest(gens, start) ==
  /\ left_view = NoView /\ center_view = NoView /\ right_view = NoView
  /\ prev_result = FALSE /\ curr_result = FALSE
  /\ i = 0
  /\ main_i = 0
  /\ generations = gens
  /\ pc = start
  /\ stdout_line = <<>>
  /\ rendered = <<>>
  /\ steps = 0
  /\ seed = automaton_state
  /\ pre_state = automaton_state
  /\ reference = Cells(automaton_state)
  /\ reads = {} /\ writes = <<>> /\ evals = <<>>

\* the driver on any row of MinN..MaxN cells with rule 110
Init ==
  \E n \in MinN .. MaxN :
    /\ STATE_SIZE = n
    /\ sizeof_block_t = 1
    /\ \E cells \in [0 .. n - 1 -> {0, 1}], pad \in {0, 1} :
         automaton_state = Pack(cells, pad)
    /\ state_array = "automaton_state"
    /\ rule_table = RULE110
    /\ pflip_rules = "rule_table"
    /\ InitRest(MaxGen, "main_print0")

\* the driver on any row of MinN..MaxN cells with block_t one or two bytes
\* wide (uint8_t, uint16_t)
InitWide ==
  \E n \in MinN .. MaxN, sz \in {1, 2} :
    /\ STATE_SIZE = n
    /\ sizeof_block_t = sz
    /\ \E cells \in [0 .. n - 1 -> {0, 1}], pad \in {0, 1} :
         automaton_state = Pack(cells, pad)
    /\ state_array = "automaton_state"
    /\ rule_table = RULE110
    /\ pflip_rules = "rule_table"
    /\ InitRest(1, "main_print0")

\* the driver exactly as main() runs it
InitMain ==
  /\ STATE_SIZE = MAIN_STATE_SIZE
  /\ sizeof_block_t = 1
  /\ automaton_state = MainArray
  /\ state_array = "automaton_state"
  /\ rule_table = RULE110
  /\ pflip_rules = "rule_table"
  /\ InitRest(GENERATIONS, "main_print0")

\* rule tables a caller can hand to automaton_step: every table of 8 flags,
\* one entry short, one entry long
CoreTables ==
  { [k \in 1 .. 8 |-> f[k]] : f \in [1 .. 8 -> BOOLEAN] }
    \cup {SubSeq(RULE110, 1, 7), RULE110 \o <<TRUE>>}

\* one call of automaton_step with any arguments, then a render
InitCore ==
  \E n \in MinN .. MaxCoreN :
    /\ STATE_SIZE = n
    /\ sizeof_block_t = 1
    /\ \E cells \in [0 .. n - 1 -> {0, 1}], pad \in {0, 1} :
         automaton_state = Pack(cells, pad)
    /\ state_array \in {NULL, "automaton_state"}
    /\ pflip_rules \in {NULL, "rule_table"}
    /\ IF pflip_rules = NULL THEN rule_table = <<>> ELSE rule_table \in CoreTables
    /\ InitRest(1, "main_loop")

\* ------------------------------------------------------------------ actions
\* assert(state_array != NULL); assert(pflip_rules != NULL);
\* variant: assertions compiled out
AssertsHold_mut == TRUE
AssertsHold == state_array # NULL /\ pflip_rules # NULL

\* for (size_t i = 3; i < STATE_SIZE + 1; i++)
\* variant: the extra iteration for i = STATE_SIZE left out
LoopCondition_mut == i < STATE_SIZE
\* variant: one iteration too many
LoopCondition_mut2 == i < STATE_SIZE + 2
LoopCondition == i < STATE_SIZE + 1

\* main: pretty_print(automaton_state) before the loop
MainPrintSeed ==
  /\ pc = "main_print0"
  /\ stdout_line' = pretty_print(automaton_state)
  /\ rendered' = Append(rendered, steps)
  /\ pc' = "main_loop"
  /\ UNCHANGED <<STATE_SIZE, sizeof_block_t, automaton_state, state_array,
                 rule_table, pflip_rules, left_view, center_view, right_view,
                 prev_result, curr_result, i, main_i, generations, steps,
                 seed, pre_state, reference>>
  /\ UNCHANGED log

\* main: i < 100 holds, automaton_step is entered: assertions pass, the three
\* views are set on the first block, prev_result is read, i = 3
StepEnter ==
  /\ pc = "main_loop"
  /\ main_i < generations
  /\ AssertsHold
  /\ left_view' = [pblock |-> 0, position |-> (BLOCK_SIZE - 1) % 256]
  /\ center_view' = [pblock |-> 0, position |-> (BLOCK_SIZE - 2) % 256]
  /\ right_view' = [pblock |-> 0, position |-> (BLOCK_SIZE - 3) % 256]
  /\ prev_result' = (get_bit(automaton_state, left_view') = 1)
  /\ curr_result' \in BOOLEAN
  /\ i' = 3
  /\ pre_state' = automaton_state
  /\ reads' = {left_view'} /\ writes' = <<>> /\ evals' = <<>>
  /\ pc' = "step_loop"
  /\ UNCHANGED <<STATE_SIZE, sizeof_block_t, automaton_state, state_array,
                 rule_table, pflip_rules, main_i, generations, stdout_line,
                 rendered, steps, seed, reference>>

\* automaton_step is entered and an assertion fails: the process aborts
StepAbort ==
  /\ pc = "main_loop"
  /\ main_i < generations
  /\ ~AssertsHold
  /\ pc' = "abort"
  /\ UNCHANGED <<STATE_SIZE, sizeof_block_t, automaton_state, state_array,
                 rule_table, pflip_rules, left_view, center_view, right_view,
                 prev_result, curr_result, i, main_i, generations, stdout_line,
                 rendered, steps, seed, pre_state, reference>>
  /\ UNCHANGED log

\* one iteration of the loop of automaton_step
StepIter ==
  /\ pc = "step_loop"
  /\ LoopCondition
  /\ \E r \in evaluate(automaton_state, left_view, center_view, right_view, rule_table) :
       /\ curr_result' = r
       /\ prev_result' = r
  /\ automaton_state' = conditional_bit_flip(automaton_state, left_view, prev_result)
  /\ left_view' = center_view
  /\ center_view' = right_view
  /\ right_view' = ViewAt(i)
  /\ i' = i + 1
  /\ reads' = reads \cup {left_view, center_view, right_view}
  /\ evals' = Append(evals, center_view)
  /\ writes' = Append(writes, left_view)
  /\ UNCHANGED <<STATE_SIZE, sizeof_block_t, state_array, rule_table,
                 pflip_rules, main_i, generations, pc, stdout_line, rendered,
                 steps, seed, pre_state, reference>>

\* the loop of automaton_step ends: the last pending write, then return
StepFlush ==
  /\ pc = "step_loop"
  /\ ~LoopCondition
  /\ automaton_state' = conditional_bit_flip(automaton_state, left_view, curr_result)
  /\ steps' = steps + 1
  /\ writes' = Append(writes, left_view)
  /\ UNCHANGED <<reads, evals>>
  /\ reference' = IF Len(rule_table) >= 8 THEN RefStep(reference, rule_table) ELSE reference
  /\ left_view' = NoView /\ center_view' = NoView /\ right_view' = NoView
  /\ prev_result' = FALSE /\ curr_result' = FALSE
  /\ i' = 0
  /\ pc' = "main_print"
  /\ UNCHANGED <<STATE_SIZE, sizeof_block_t, state_array, rule_table,
                 pflip_rules, main_i, generations, stdout_line, rendered,
                 seed, pre_state>>

\* main: pretty_print(automaton_state) after a step, then i++
MainPrint ==
  /\ pc = "main_print"
  /\ stdout_line' = pretty_print(automaton_state)
  /\ rendered' = Append(rendered, steps)
  /\ main_i' = main_i + 1
  /\ pc' = "main_loop"
  /\ UNCHANGED <<STATE_SIZE, sizeof_block_t, automaton_state, state_array,
                 rule_table, pflip_rules, left_view, center_view, right_view,
                 prev_result, curr_result, i, generations, steps, seed,
                 pre_state, reference>>
  /\ UNCHANGED log

\* main: i < 100 fails, main returns
MainExit ==
  /\ pc = "main_loop"
  /\ ~(main_i < generations)
  /\ pc' = "exit"
  /\ UNCHANGED <<STATE_SIZE, sizeof_block_t, automaton_state, state_array,
                 rule_table, pflip_rules, left_view, center_view, right_view,
                 prev_result, curr_result, i, main_i, generations, stdout_line,
                 rendered, steps, seed, pre_state, reference>>
  /\ UNCHANGED log

Next ==
  \/ MainPrintSeed
  \/ StepEnter
  \/ StepIter
  \/ StepFlush
  \/ MainPrint
  \/ MainExit

NextCore ==
  \/ StepEnter
  \/ StepAbort
  \/ StepIter
  \/ StepFlush
  \/ MainPrint
  \/ MainExit

Spec == Init /\ [][Next]_vars

SpecMain == InitMain /\ [][Next]_vars

\* the program is one sequential thread: an enabled step is taken
SpecMainFair == InitMain /\ [][Next]_vars /\ WF_vars(Next)

SpecCore == InitCore /\ [][NextCore]_vars

SpecWide == InitWide /\ [][Next]_vars

\* ------------------------------------------------------------------ claims
\* no call of automaton_step is in progress
AtBoundary == pc \in {"main_print0", "main_loop", "main_print", "exit"}

Row == Cells(automaton_state)
SeedRow == Cells(seed)
PreRow == Cells(pre_state)
Interior == 1 .. STATE_SIZE - 2

\* rule 110 as a truth table of next values
Rule110(l, c, r) ==
  CASE <<l, c, r>> = <<0, 0, 0>> -> 0
    [] <<l, c, r>> = <<0, 0, 1>> -> 1
    [] <<l, c, r>> = <<0, 1, 0>> -> 1
    [] <<l, c, r>> = <<0, 1, 1>> -> 1
    [] <<l, c, r>> = <<1, 0, 0>> -> 0
    [] <<l, c, r>> = <<1, 0, 1>> -> 1
    [] <<l, c, r>> = <<1, 1, 0>> -> 1
    [] <<l, c, r>> = <<1, 1, 1>> -> 0

\* C1: between steps the in-place row equals the row of the double-buffered
\* reference (both ends copied, interior cells from the old row) after the
\* same number of generations.
C1_EqualsDoubleBuffered == AtBoundary => Row = reference

\* C2: between steps cell 0 and cell N-1 hold their generation-0 values.
C2_BoundaryInvariance ==
  AtBoundary => /\ Row[0] = SeedRow[0]
                /\ Row[STATE_SIZE - 1] = SeedRow[STATE_SIZE - 1]

\* C3: after a step with the RULE110 table every interior cell holds rule 110
\* of the pre-step values of its left neighbour, itself and its right neighbour.
C3_Rule110 ==
  (AtBoundary /\ steps > 0) =>
    \A k \in Interior : Row[k] = Rule110(PreRow[k - 1], PreRow[k], PreRow[k + 1])

\* a step has turned an interior cell with neighbourhood 111 to dead and
\* another with neighbourhood 001 to alive
C3_Witness ==
  /\ AtBoundary /\ steps > 0
  /\ \E k \in Interior :
       /\ PreRow[k - 1] = 1 /\ PreRow[k] = 1 /\ PreRow[k + 1] = 1 /\ Row[k] = 0
  /\ \E k \in Interior :
       /\ PreRow[k - 1] = 0 /\ PreRow[k] = 0 /\ PreRow[k + 1] = 1 /\ Row[k] = 1

\* the call was made with a state array and a table of exactly 8 entries
ValidCall == state_array # NULL /\ pflip_rules # NULL /\ Len(rule_table) = 8

CodeOf(row, k) == (row[k - 1] * 4) + (row[k] * 2) + row[k + 1]

\* C4 as stated: after a step the center cell of every window equals the
\* table's entry for the window's pre-step neighbourhood code.
C4_EntryIsNextValue ==
  (AtBoundary /\ steps > 0 /\ ValidCall) =>
    \A k \in Interior :
      Row[k] = (IF rule_table[CodeOf(PreRow, k) + 1] THEN 1 ELSE 0)

\* C4 amended: after a step the center cell of every window equals its
\* pre-step value, flipped exactly when the table's entry for the window's
\* pre-step neighbourhood code is true.
C4_EntryIsFlipFlag ==
  (AtBoundary /\ steps > 0 /\ ValidCall) =>
    \A k \in Interior :
      Row[k] = (IF rule_table[CodeOf(PreRow, k) + 1] THEN 1 - PreRow[k] ELSE PreRow[k])

\* a 3-cell window 111 under a table whose entry 7 is set was stepped and its
\* center cell went dead
C4_Witness ==
  /\ AtBoundary /\ steps > 0 /\ ValidCall
  /\ STATE_SIZE = 3
  /\ CodeOf(PreRow, 1) = 7 /\ rule_table[8] /\ Row[1] = 0

AllDead(arr) == \A k \in 0 .. STATE_SIZE - 1 : Cells(arr)[k] = 0

C6_FirstGeneration ==
  (steps = 1 /\ AtBoundary) =>
    /\ Row[21] = 1 /\ Row[22] = 1
    /\ Row[0] = SeedRow[0] /\ Row[23] = SeedRow[23]

\* the driver has completed its first step and not yet rendered it
C6_Witness == steps = 1 /\ pc = "main_print" /\ STATE_SIZE = 24

\* C7 as stated: the driver's initial row has 24 cells in 3 blocks, cell 22
\* alive and every other cell dead.
C7_OnlyCell22Alive ==
  (steps = 0 /\ pc \in {"main_print0", "main_loop"}) =>
    /\ STATE_SIZE = 24 /\ ARRAY_SIZE = 3
    /\ \A k \in 0 .. 23 : Row[k] = (IF k = 22 THEN 1 ELSE 0)

\* C7 amended: the driver's initial row has 24 cells in 3 blocks, cells 15
\* and 22 alive (the set bit of block 1 and the set bit of block 2) and every
\* other cell dead.
C7_Cells15And22Alive ==
  (steps = 0 /\ pc \in {"main_print0", "main_loop"}) =>
    /\ STATE_SIZE = 24 /\ ARRAY_SIZE = 3
    /\ \A k \in 0 .. 23 : Row[k] = (IF k \in {15, 22} THEN 1 ELSE 0)

\* the driver holds its freshly built row, cells 15 and 22 alive
C7_Witness == steps = 0 /\ pc = "main_print0" /\ Row[15] = 1 /\ Row[22] = 1

\* position of the driver against the renders and steps done so far
DriverOrder ==
  /\ pc # "abort"
  /\ rendered = [k \in 1 .. Len(rendered) |-> k - 1]
  /\ steps <= 100
  /\ pc = "main_print0" => (steps = 0 /\ Len(rendered) = 0)
  /\ pc \in {"main_loop", "step_loop"} => (Len(rendered) = steps + 1 /\ main_i = steps)
  /\ pc = "main_print" => (Len(rendered) = steps /\ main_i = steps - 1)
  /\ pc = "exit" => (steps = 100 /\ Len(rendered) = 101)

\* C8: the driver renders the seed, then alternates step and render so that
\* the k-th render shows generation k-1; it never aborts, and it ends after
\* exactly 100 steps and 101 renders.
C8_DriverRuns == []DriverOrder /\ <>(pc = "exit")

\* the driver has returned after 100 steps and 101 renders
C8_Witness == pc = "exit" /\ steps = 100 /\ Len(rendered) = 101

\* nothing of the call has happened but its abort
NoStepTaken ==
  /\ pc \in {"main_loop", "abort"}
  /\ steps = 0
  /\ automaton_state = seed

\* C9 as stated: a call with a null state array, a null rule table or a table
\* that does not have exactly 8 entries only ever aborts, with the row
\* untouched.
C9_ViolationAborts ==
  (state_array = NULL \/ pflip_rules = NULL \/ Len(rule_table) # 8) => NoStepTaken

\* C9 amended: a call with a null state array or a null rule table only ever
\* aborts, with the row untouched.
C9_NullAborts ==
  (state_array = NULL \/ pflip_rules = NULL) => NoStepTaken

\* a call with a null argument has aborted
C9_Witness ==
  /\ pc = "abort" /\ automaton_state = seed
  /\ state_array = NULL /\ pflip_rules # NULL

\* the line of a row: a glyph per cell, single spaces between, a newline
ExpectedLine(row) ==
  [k \in 1 .. 2 * STATE_SIZE |->
     IF k = 2 * STATE_SIZE THEN "\n"
     ELSE IF k % 2 = 1 THEN Glyph(row[(k - 1) \div 2] = 1)
     ELSE " "]

\* C10: right after a render, the line written is the N glyphs of cells
\* 0..N-1 in order, single spaces between, one newline at the end, whatever
\* the padding bits of the last block hold.
C10_RenderedLine ==
  (pc \in {"main_loop", "exit"} /\ Len(rendered) > 0) =>
    /\ Len(stdout_line) = 2 * STATE_SIZE
    /\ stdout_line = ExpectedLine(Row)

\* a stepped row of two blocks whose last block has set padding bits and a
\* dead last cell was rendered
C10_Witness ==
  /\ pc = "main_loop" /\ steps > 0 /\ Len(rendered) = steps + 1
  /\ ARRAY_SIZE = 2 /\ STATE_SIZE % 8 # 0
  /\ automaton_state[1] % 2 = 1
  /\ Row[STATE_SIZE - 1] = 0
  /\ \E k \in 0 .. STATE_SIZE - 1 : Row[k] = 1

\* bit p of block b of an array
BitOf(arr, b, p) == (arr[b] \div Pow2(p)) % 2

\* the cell a view designates: the first cell of a block sits at position
\* BLOCK_SIZE - 1, the last at position 0
WidthBits == 8 * sizeof_block_t
CellOfView(view) == (view.pblock * WidthBits) + ((WidthBits - 1) - view.position)

\* the flag of the conditional_bit_flip the step is about to make
PendingFlag == IF LoopCondition THEN prev_result ELSE curr_result

\* C11: every conditional_bit_flip of a step is made on the view of one cell
\* (cell i - 3 for loop counter i); it toggles that cell's bit exactly when
\* its flag is true and leaves every other bit of every block, padding
\* included, as it was.
C11_ToggleAndFrame ==
  [][pc = "step_loop" =>
       /\ left_view = ViewAt(i - 3)
       /\ \A b \in DOMAIN automaton_state, p \in 0 .. BLOCK_SIZE - 1 :
            BitOf(automaton_state', b, p) =
              IF PendingFlag /\ b = left_view.pblock /\ p = left_view.position
              THEN 1 - BitOf(automaton_state, b, p)
              ELSE BitOf(automaton_state, b, p)
       /\ \A k \in 0 .. STATE_SIZE - 1 :
            Cells(automaton_state')[k] =
              IF PendingFlag /\ k = i - 3 THEN 1 - Row[k] ELSE Row[k]]_vars

\* a step in progress has toggled one cell from alive to dead and left
\* another as it was, in a row of two blocks with set padding bits
C11_Witness ==
  /\ pc = "step_loop" /\ ARRAY_SIZE = 2 /\ automaton_state[1] % 2 = 1
  /\ \E w \in 1 .. Len(writes) :
       PreRow[CellOfView(writes[w])] = 1 /\ Row[CellOfView(writes[w])] = 0
  /\ \E w \in 1 .. Len(writes) :
       Row[CellOfView(writes[w])] = PreRow[CellOfView(writes[w])]

\* what one step makes of a row, as a function of the row and the table
\* alone: cell 0 cleared, cell N-1 kept, interior cells from the old row
StepFunction(row, table) ==
  [k \in DOMAIN row |->
     IF k = 0 THEN 0
     ELSE IF k = STATE_SIZE - 1 THEN row[k]
     ELSE FlipNext(table, row[k - 1], row[k], row[k + 1])]

RECURSIVE Generation(_, _, _)
Generation(row, table, g) ==
  IF g = 0 THEN row ELSE StepFunction(Generation(row, table, g - 1), table)

\* the bits of the last block that hold no cell
PaddingBits(arr) ==
  [p \in 0 .. (ARRAY_SIZE * BLOCK_SIZE) - STATE_SIZE - 1 |-> BitOf(arr, ARRAY_SIZE - 1, p)]

\* C12: in every run the row after g steps is one fixed function of the seed
\* row, the rule table and g, and the padding bits are those of the seed:
\* whatever the uninitialised local of the step holds, two runs from the same
\* seed and table show the same row at every generation.
C12_Deterministic ==
  AtBoundary =>
    /\ Row = Generation(SeedRow, rule_table, steps)
    /\ PaddingBits(automaton_state) = PaddingBits(seed)

\* a row with cell 0 alive and set padding bits has gone through two steps
\* that changed it
C12_Witness ==
  /\ AtBoundary /\ steps >= 2
  /\ SeedRow[0] = 1 /\ Row # SeedRow /\ Row # PreRow
  /\ ARRAY_SIZE = 2 /\ automaton_state[1] % 2 = 1

\* C13: whenever an iteration of the loop is about to evaluate, the bits at
\* the left, center and right views hold their values from before the step,
\* and so does every cell from the left one on; everything written so far
\* lies to the left of the window.
C13_ReadsArePreStep ==
  (pc = "step_loop" /\ LoopCondition) =>
    /\ get_bit(automaton_state, left_view) = get_bit(pre_state, left_view)
    /\ get_bit(automaton_state, center_view) = get_bit(pre_state, center_view)
    /\ get_bit(automaton_state, right_view) = get_bit(pre_state, right_view)
    /\ \A k \in 0 .. STATE_SIZE - 1 : k >= i - 3 => Row[k] = PreRow[k]
    /\ \A w \in 1 .. Len(writes) : writes[w] \notin {left_view, center_view, right_view}

\* an iteration is about to evaluate right after the cell left of its window
\* was changed by the previous iteration's write
C13_Witness ==
  /\ pc = "step_loop" /\ LoopCondition /\ i >= 5
  /\ Row[i - 4] # PreRow[i - 4]
  /\ CellOfView(left_view) = i - 3

\* the pending result of the write the step is about to make, as a cell value
PendingValue == IF PendingFlag THEN 1 ELSE 0

\* C14 as stated: right after every write of a step (inside the loop and
\* after it) the cell at the left view equals the pending result.
C14_LeftBecomesPending ==
  [][pc = "step_loop" => get_bit(automaton_state', left_view) = PendingValue]_vars

\* C14 amended: every write of a step (inside the loop and after it) flips
\* the cell at the left view exactly when the pending result is true, so that
\* right after it the cell holds its previous value exclusive-or the pending
\* result; the pending result is the table entry found for that cell when it
\* was the center (for cell 0, its own pre-step value).
C14_LeftFlippedByPending ==
  [][pc = "step_loop" =>
       /\ get_bit(automaton_state', left_view)
            = (get_bit(automaton_state, left_view) + PendingValue) % 2
       /\ PendingFlag = (IF i = 3 THEN PreRow[0] = 1
                         ELSE rule_table[CodeOf(PreRow, i - 3) + 1])]_vars

\* a write with a false pending result has left an alive cell alive, and a
\* write with a true pending result has turned a dead cell alive
C14_Witness ==
  /\ pc = "step_loop" /\ i >= 6
  /\ ~rule_table[CodeOf(PreRow, i - 4) + 1] /\ PreRow[i - 4] = 1 /\ Row[i - 4] = 1
  /\ rule_table[CodeOf(PreRow, i - 5) + 1] /\ PreRow[i - 5] = 0 /\ Row[i - 5] = 1

\* the views evaluate was given as center so far designate cells 1, 2, ... in
\* that order
CentersInOrder == \A e \in 1 .. Len(evals) : CellOfView(evals[e]) = e

\* C15: a step makes one evaluation per loop iteration, the center taking
\* cells 1, 2, ... in order; when the loop ends N-2 evaluations were made,
\* the left view is cell N-2 and curr_result is the table entry found for
\* center N-2, which the write after the loop applies to cell N-2.
C15_EvaluationsInOrder ==
  /\ pc = "step_loop" =>
       /\ i >= 3 /\ i <= STATE_SIZE + 1
       /\ Len(evals) = i - 3
       /\ CentersInOrder
       /\ ~LoopCondition =>
            /\ Len(evals) = STATE_SIZE - 2
            /\ CellOfView(left_view) = STATE_SIZE - 2
            /\ curr_result = rule_table[CodeOf(PreRow, STATE_SIZE - 2) + 1]
  /\ (AtBoundary /\ steps > 0) =>
       /\ Len(evals) = STATE_SIZE - 2
       /\ CentersInOrder
       /\ CellOfView(writes[Len(writes)]) = STATE_SIZE - 2
       /\ Row[STATE_SIZE - 2]
            = FlipNext(rule_table, PreRow[STATE_SIZE - 3], PreRow[STATE_SIZE - 2],
                       PreRow[STATE_SIZE - 1])

\* a step on a row of two blocks has returned after N-2 evaluations, its
\* last write having changed cell N-2
C15_Witness ==
  /\ pc = "main_print" /\ STATE_SIZE > 8
  /\ Len(evals) = STATE_SIZE - 2
  /\ Row[STATE_SIZE - 2] # PreRow[STATE_SIZE - 2]

\* number of blocks that hold the cells: N / W rounded up
BlocksNeeded == (STATE_SIZE + WidthBits - 1) \div WidthBits

\* the view designates a bit of a cell of the row
DesignatesCell(view) ==
  /\ view.pblock \in 0 .. BlocksNeeded - 1
  /\ view.position \in 0 .. WidthBits - 1
  /\ CellOfView(view) \in 0 .. STATE_SIZE - 1

\* C16: every view a step reads through or hands to a write designates a cell
\* 0..N-1 in a block below ceil(N / W), hence no padding bit; the right view
\* left over when the loop ends designates index N, possibly in the block
\* past the array, and is neither read nor written; the padding bits keep
\* their values throughout.
C16_AccessesInsideRow ==
  /\ \A v \in reads : DesignatesCell(v)
  /\ \A w \in 1 .. Len(writes) : DesignatesCell(writes[w])
  /\ (pc = "step_loop" /\ ~LoopCondition) =>
       /\ CellOfView(right_view) = STATE_SIZE
       /\ right_view \notin reads
       /\ \A w \in 1 .. Len(writes) : writes[w] # right_view
  /\ PaddingBits(automaton_state) = PaddingBits(seed)

\* the loop of a step on a row of exactly one full block has ended: the
\* leftover right view points into the block past the array
C16_Witness ==
  /\ pc = "step_loop" /\ ~LoopCondition
  /\ STATE_SIZE = 8 /\ ARRAY_SIZE = 1
  /\ right_view.pblock = 1
  /\ Cardinality(reads) = 8

\* the view of cell k under the documented layout: block k / W, position
\* W - 1 - (k % W)
LayoutView(k) ==
  [pblock |-> k \div WidthBits, position |-> (WidthBits - 1) - (k % WidthBits)]

\* C17: whatever the block type, the array has ceil(N / W) blocks, at the
\* start of the iteration with counter i the left, center and right views
\* designate cells i-3, i-2 and i-1, and the view computed for a counter in
\* 3..N-1 is block counter / W, position W - 1 - (counter % W).
C17_IndexMapping ==
  /\ ARRAY_SIZE = BlocksNeeded
  /\ (pc = "step_loop" /\ LoopCondition) =>
       /\ left_view = LayoutView(i - 3)
       /\ center_view = LayoutView(i - 2)
       /\ right_view = LayoutView(i - 1)
       /\ i > 3 => right_view = ViewAt(i - 1)

\* the views handed to conditional_bit_flip so far designate cells 0, 1, ...
\* in that order
WritesInOrder == \A w \in 1 .. Len(writes) : CellOfView(writes[w]) = w - 1

\* C18: the conditional writes of a step go to cells 0, 1, ..., N-2, one
\* each and in that order; cell N-1 is handed to no write, it is read (as
\* the right neighbour of cell N-2) and keeps its value.
C18_LastCellNeverWritten ==
  /\ WritesInOrder
  /\ pc = "step_loop" => Len(writes) = i - 3
  /\ (AtBoundary /\ steps > 0) =>
       /\ Len(writes) = STATE_SIZE - 1
       /\ LayoutView(STATE_SIZE - 1) \in reads
       /\ Row[STATE_SIZE - 1] = PreRow[STATE_SIZE - 1]

\* a step has returned with cell N-1 alive as before and cell N-2 changed
C18_Witness ==
  /\ pc = "main_print" /\ Len(writes) = STATE_SIZE - 1
  /\ PreRow[STATE_SIZE - 1] = 1 /\ Row[STATE_SIZE - 1] = 1
  /\ Row[STATE_SIZE - 2] # PreRow[STATE_SIZE - 2]

====
